---- MODULE Spec2Model ----
(***************************************************************************)
(* hdt-rdfjs-dataset: the host side of the HDT WASM64 bridge (HdtWasm) and *)
(* the read-only RDF/JS dataset facade over it (HdtDatasetCore).           *)
(*                                                                         *)
(* JavaScript runs every synchronous method to completion, so each public  *)
(* method is one action.  What the method did at the guest boundary is     *)
(* recorded, in order, in last.trace, until the caller takes the outcome.  *)
(* The guest module is not among the repository's sources: it is modelled  *)
(* at its export interface, and every outcome                              *)
(* the interface allows (a zero pointer from hdt_alloc, an error status, a *)
(* trap, a malformed payload) is an input the actions draw with \E.        *)
(***************************************************************************)
EXTENDS Integers, Sequences, FiniteSets, TLC

VARIABLES
  exports,     \* HdtWasm.exports: NoInstance (null) or the instance whose export table it is
  memory,      \* HdtWasm.memory: NoInstance (null) or the instance whose memory it is
  caps,        \* optional exports of the instantiated module
  loadPc,      \* loadPc[i]: where the i-th load() call is suspended
  hdt,         \* guest: the dataset of the active session, NoSession when none
  heap,        \* guest: the buffers handed out by hdt_alloc and not yet freed
  facade,      \* whether an HdtDatasetCore has been constructed over the bridge
  size_,       \* HdtDatasetCore._size: <<n>> when cached, NullSize (null) when unset
  loadHdtOk,   \* history: a loadHdt call has returned normally
  closed,      \* history: close() has been called on the facade
  last         \* the last top-level operation: its arguments, outcome and boundary trace

vars == <<exports, memory, caps, loadPc, hdt, heap, facade, size_, loadHdtOk, closed, last>>

-----------------------------------------------------------------------------
(* Bounds of the model *)

MaxLoads == 1          \* load() calls made on the bridge under Spec
MaxLeaked == 1         \* an operation starts only while fewer buffers than this are outstanding
MaxAllocFailures == 2  \* hdt_alloc calls that return 0 within one operation
HeapBase == 1024       \* lowest address the guest allocator hands out
TripleJsonBytes == 400000
MaxIdLen == 3
MaxConcurrentLoads == 2
LowBits == 4  \* bytes of one triple in the guest's JSON payload (long IRIs)

(* Program constants *)

outputCapacity == 1048576
errorBufferCapacity == 1024
logBufferCapacity == 4096

-----------------------------------------------------------------------------
(* JavaScript values.  A string is the sequence of its code points (all    *)
(* below U+10000, so one UTF-16 unit each).                                *)

Null == [kind |-> "null", s |-> <<>>]
Undefined == [kind |-> "undefined", s |-> <<>>]
Str(s) == [kind |-> "string", s |-> s]

\* ToBoolean of a `string | null | undefined`
Truthy(v) == v.kind = "string" /\ v.s # <<>>

\* UTF-8 bytes of one code point
Utf8Unit(cp) ==
  IF cp < 128 THEN <<cp>>
  ELSE IF cp < 2048 THEN <<192 + (cp \div 64), 128 + (cp % 64)>>
  ELSE <<224 + (cp \div 4096), 128 + ((cp \div 64) % 64), 128 + (cp % 64)>>

RECURSIVE encode(_)
\* TextEncoder.encode
encode(s) == IF s = <<>> THEN <<>> ELSE Utf8Unit(Head(s)) \o encode(Tail(s))

-----------------------------------------------------------------------------
(* Terms and triples *)

StrA == <<97>>             \* "a"
StrB == <<98>>             \* "b"
StrP == <<112>>            \* "p"
StrE == <<233>>            \* "e" with acute accent: two bytes in UTF-8
StrBlank == <<95, 58, 120>>  \* "_:x"

\* StructuredRdfTerm
STerm(tt, v) == [termType |-> tt, value |-> v, language |-> <<>>, datatype |-> <<>>]
\* StructuredTriple
STriple(s, p, o) == [subject |-> s, predicate |-> p, object |-> o]

T1 == STriple(STerm("NamedNode", StrA), STerm("NamedNode", StrP), STerm("NamedNode", StrB))
T2 == STriple(STerm("NamedNode", StrA), STerm("NamedNode", StrP), STerm("Literal", <<>>))
T3 == STriple(STerm("BlankNode", StrBlank), STerm("NamedNode", StrP), STerm("Literal", StrE))

\* An RDF/JS term handed to the facade, or null / undefined
NullTerm == [kind |-> "null", termType |-> "", value |-> <<>>]
UndefTerm == [kind |-> "undefined", termType |-> "", value |-> <<>>]
Term(tt, v) == [kind |-> "term", termType |-> tt, value |-> v]

\* `term?.value || null`
ValueOrNull(t) == IF t.kind = "term" /\ t.value # <<>> THEN Str(t.value) ELSE Null

-----------------------------------------------------------------------------
(* The guest, at its export interface *)

NoInstance == 0
NoSession == 0

\* The datasets a session can hold, in the guest's (HDT) triple order
Dataset(d) ==
  CASE d = 1 -> <<>>
    [] d = 2 -> <<T1, T2>>
    [] d = 3 -> <<T1, T2, T3>>
    [] OTHER -> <<>>
DatasetIds == {1, 2, 3}

\* The bytes handed to loadHdt: an HDT file of dataset ds, or bytes that are no HDT file
HdtFile(d) == [len |-> 4, ds |-> d]
Garbage == [len |-> 4, ds |-> NoSession]
Files == {HdtFile(d) : d \in DatasetIds} \cup {Garbage}

ErrorCodes == {-1, -3}   \* statuses the guest reports for a fault of its own
NoSessionCode == -1      \* status of a query when no dataset is loaded
CapacityCode == -2       \* status when the payload does not fit the output buffer
LoadErrorCode == 2       \* hdt_load status for bytes that are no HDT file

\* One boundary event
Ev(ev, fn, ptr, len, ret, view, args) ==
  [ev |-> ev, fn |-> fn, ptr |-> ptr, len |-> len, ret |-> ret, view |-> view, args |-> args]
Call(fn, ret, args) == Ev("call", fn, 0, 0, ret, 0, args)

\* A cell of guest memory: the bytes the host copied in, or a payload the guest wrote
Raw(bytes) == [kind |-> "raw", bytes |-> bytes, json |-> <<>>]
Payload(kind, triples) == [kind |-> kind, bytes |-> <<>>, json |-> triples]
File(f) == [kind |-> "file", bytes |-> <<f.len, f.ds>>, json |-> <<>>]
Unwritten == Raw(<<-1>>)

\* An Error thrown to the caller.  carries: the message holds the status code
Err(kind, carries, code, msg) == [kind |-> kind, carries |-> carries, code |-> code, msg |-> msg]
NoErr == Err("", FALSE, 0, <<>>)

\* The machine a method runs on.  Guest side: heap, session, memory.  Host side: the
\* locals of the method (pointers by buffer, the target's result, the text read back,
\* the decoded payload), how it ended, the boundary trace, and the facade's _size
NoPtrs == [subject |-> 0, predicate |-> 0, object |-> 0, output |-> 0, input |-> 0,
           scratch |-> 0]
Start ==
  [heap |-> heap, hdt |-> hdt, mem |-> <<>>, trace |-> <<>>, ptr |-> NoPtrs, view |-> 0,
   result |-> 0, textLen |-> 0, text |-> <<>>, decoded |-> Unwritten,
   threw |-> FALSE, err |-> NoErr, value |-> <<>>, num |-> 0, cache |-> size_]

One(S) == CHOOSE x \in S : TRUE

Log(m, e) == [m EXCEPT !.trace = Append(@, e)]
Throw(m, e) == [m EXCEPT !.threw = TRUE, !.err = e]

Overlaps(b, p, n) == p < b.ptr + b.len /\ b.ptr < p + n

\* First fit: the lowest free address at or after HeapBase
FirstFit(h, n) ==
  LET cand == {HeapBase} \cup {b.ptr + b.len : b \in h}
      free == {p \in cand : \A b \in h : ~Overlaps(b, p, n)}
  IN CHOOSE p \in free : \A q \in free : p <= q

MemPut(mem, p, cell) == [q \in (DOMAIN mem) \cup {p} |-> IF q = p THEN cell ELSE mem[q]]
MemGet(mem, p) == IF p \in DOMAIN mem THEN mem[p] ELSE Unwritten

\* exports.hdt_alloc(size): a pointer, or 0 when the guest cannot allocate
hdt_alloc(m, slot, n, ok) ==
  LET p == IF ok THEN FirstFit(m.heap, n) ELSE 0
  IN [m EXCEPT !.heap = IF ok THEN @ \cup {[ptr |-> p, len |-> n]} ELSE @,
               !.ptr[slot] = p,
               !.trace = Append(@, Ev("alloc", "hdt_alloc", p, n, p, 0, <<>>))]

\* exports.hdt_free(ptr, size): the block goes back to the allocator, which reuses it
hdt_free(m, p, n) ==
  [m EXCEPT !.heap = @ \ {[ptr |-> p, len |-> n]},
            !.mem = IF [ptr |-> p, len |-> n] \in m.heap THEN MemPut(@, p, Unwritten) ELSE @,
            !.trace = Append(@, Ev("free", "hdt_free", p, n, 0, 0, <<>>))]

\* What the guest reads for one filter: nothing when the length is 0
FilterBytes(m, p, n) ==
  IF n = 0 THEN <<>>
  ELSE LET c == MemGet(m.mem, p)
       IN IF c.kind = "raw" /\ Len(c.bytes) = n THEN c.bytes ELSE <<-1>>

\* A zero-length filter matches any value; any other must equal the term's value
TermMatches(t, f) == f = <<>> \/ encode(t.value) = f

Matching(d, sf, pf, of) ==
  SelectSeq(Dataset(d), LAMBDA t : /\ TermMatches(t.subject, sf)
                                   /\ TermMatches(t.predicate, pf)
                                   /\ TermMatches(t.object, of))

\* Length of the JSON text of an array of triples
JsonLen(ts) == 2 + Len(ts) * TripleJsonBytes + (IF Len(ts) > 1 THEN Len(ts) - 1 ELSE 0)

\* What the guest does in one operation: which hdt_alloc calls succeed, how the
\* target export ends, and what it leaves behind
AllocPlans ==
  {f \in [1..4 -> BOOLEAN] : Cardinality({i \in 1..4 : ~f[i]}) <= MaxAllocFailures}
Guest(alloc, target, code, payload, msg, keep) ==
  [alloc |-> alloc, target |-> target, code |-> code, payload |-> payload,
   msg |-> msg, keep |-> keep]
AllOk == [i \in 1..4 |-> TRUE]
NoFault == Guest(AllOk, "ok", 0, "json", FALSE, TRUE)

Trap(m, fn, args) ==
  Throw(Log(m, Call(fn, 0, args)), Err("RuntimeError", FALSE, 0, <<>>))

\* The triples a pattern selects, as the guest reads the pattern from its memory
Found(m, lens) ==
  Matching(m.hdt, FilterBytes(m, m.ptr.subject, lens[1]),
           FilterBytes(m, m.ptr.predicate, lens[2]), FilterBytes(m, m.ptr.object, lens[3]))

PatternArgs(m, lens) ==
  <<m.ptr.subject, lens[1], m.ptr.predicate, lens[2], m.ptr.object, lens[3]>>

\* A payload of a guest whose term vocabulary is ahead of the host's: every object
\* carries a discriminator the host does not know
Alien(ts) ==
  [i \in 1..Len(ts) |-> [ts[i] EXCEPT !.object = [@ EXCEPT !.termType = "Variable"]]]

\* What the guest leaves in the output buffer
Written(g, found) ==
  IF g.payload = "alien" THEN Payload("json", Alien(found)) ELSE Payload(g.payload, found)

\* exports.hdt_query_triples(...): bytes written, or a negative status
hdt_query_triples(m, lens, cap, g) ==
  LET args == PatternArgs(m, lens) \o <<m.ptr.output, cap>>
  IN IF g.target = "trap" THEN Trap(m, "hdt_query_triples", args)
     ELSE One({
       [m EXCEPT !.result = ret,
                 !.mem = IF ret >= 0 THEN MemPut(@, m.ptr.output, Written(g, found))
                         ELSE @,
                 !.trace = Append(@, Call("hdt_query_triples", ret, args))] :
       <<found, ret>> \in {<<f, IF g.target = "status" THEN g.code
                                ELSE IF m.hdt = NoSession THEN NoSessionCode
                                ELSE IF JsonLen(f) > cap THEN CapacityCode
                                ELSE JsonLen(f)>> : f \in {Found(m, lens)}}})

\* exports.hdt_count_triples(...): the number of matching triples
hdt_count_triples(m, lens, g) ==
  IF g.target = "trap" THEN Trap(m, "hdt_count_triples", PatternArgs(m, lens))
  ELSE One({[m EXCEPT !.result = n,
                      !.trace = Append(@, Call("hdt_count_triples", n, PatternArgs(m, lens)))] :
            n \in {Len(Found(m, lens))}})

\* exports.hdt_load(ptr, len): 0 and a session, or a status
hdt_load(m, n, g) ==
  LET c == MemGet(m.mem, m.ptr.input)
      valid == c.kind = "file" /\ c.bytes[1] = n /\ c.bytes[2] \in DatasetIds
      ret == IF g.target = "status" \/ ~valid THEN LoadErrorCode ELSE 0
  IN IF g.target = "trap" THEN Trap(m, "hdt_load", <<m.ptr.input, n>>)
     ELSE [m EXCEPT !.hdt = IF ret = 0 THEN c.bytes[2] ELSE IF g.keep THEN @ ELSE NoSession,
                    !.result = ret,
                    !.trace = Append(@, Call("hdt_load", ret, <<m.ptr.input, n>>))]

StrErr == <<69>>   \* the message the guest keeps for its last error: "E"

\* exports.hdt_get_last_error / hdt_get_debug_log (ptr, capacity): bytes written
hdt_get_text(m, fn, cap, g) ==
  LET text == IF g.msg THEN encode(StrErr) ELSE <<>>
  IN [m EXCEPT !.mem = IF text # <<>> THEN MemPut(@, m.ptr.scratch, Raw(text)) ELSE @,
               !.textLen = Len(text),
               !.trace = Append(@, Call(fn, Len(text), <<m.ptr.scratch, cap>>))]

\* exports.hdt_size_in_bytes()
hdt_size_in_bytes(m) ==
  One({[m EXCEPT !.result = n, !.trace = Append(@, Call("hdt_size_in_bytes", n, <<>>))] :
       n \in {64 * Len(Dataset(m.hdt))}})

-----------------------------------------------------------------------------
(* HdtWasm: the bridge.  A method is the sequence of its statements that    *)
(* touch the boundary, in source order; a statement under `if` carries the  *)
(* condition in `when`.  A throw ends the method: no later statement runs.  *)

Stmt(op, slot, n, cell, fn) ==
  [op |-> op, when |-> "always", slot |-> slot, n |-> n, k |-> 0, cell |-> cell, fn |-> fn,
   lens |-> <<0, 0, 0>>]
When(cond, st) == [st EXCEPT !.when = cond]

\* A method that starts without the test of exports and memory
RequireNothing == Stmt("view", "", 0, Unwritten, "")
RequireLoaded == Stmt("requireLoaded", "", 0, Unwritten, "")
RequireExports == Stmt("requireExports", "", 0, Unwritten, "")
\* const ptr = this.exports.hdt_alloc(BigInt(n)); k: which allocation of the method
AllocStmt(slot, n, k) == [Stmt("alloc", slot, n, Unwritten, "") EXCEPT !.k = k]
\* if (!ptr) throw new Error('Failed to allocate memory')
ThrowIfNull(slot) == Stmt("throwIfNull", slot, 0, Unwritten, "")
\* new Uint8Array(this.memory.buffer)
ViewStmt == Stmt("view", "", 0, Unwritten, "")
\* memoryView.set(bytes, Number(ptr))
WriteStmt(slot, cell, n) == Stmt("write", slot, n, cell, "")
\* memoryView.slice(Number(ptr), Number(ptr) + n)
ReadStmt(slot, n) == Stmt("read", slot, n, Unwritten, "")
\* new Uint8Array(buffer, Number(ptr), Number(len)) and textDecoder.decode
DecodeStmt(slot, fn) == Stmt("decode", slot, 0, Unwritten, fn)
\* a call of a guest export
CallStmt(fn, n, lens) == [Stmt("call", "", n, Unwritten, fn) EXCEPT !.lens = lens]
\* this.exports.hdt_free(ptr, BigInt(n))
FreeStmt(slot, n) == Stmt("free", slot, n, Unwritten, "")
ThrowStmt(kind) == Stmt("throw", "", 0, Unwritten, kind)
\* JSON.parse(resultJson)
ParseStmt == Stmt("parse", "", 0, Unwritten, "")
\* return Number(count)
NumberStmt == Stmt("number", "", 0, Unwritten, "")
\* let errorMsg = ''
ClearStmt == Stmt("clear", "", 0, Unwritten, "")

\* HdtWasm.isLoaded
isLoaded == exports # NoInstance /\ memory # NoInstance

\* Number(bigint): exact for every count below 2^53
NumberOf(c) == c

Holds(m, cond) ==
  CASE cond = "always" -> TRUE
    [] cond = "negative" -> m.result < 0
    [] cond = "nonzero" -> m.result # 0
    [] cond = "text" -> m.textLen > 0
    [] cond = "nonzeroText" -> m.result # 0 /\ m.textLen > 0
    [] OTHER -> FALSE

\* The error a `throw` statement raises
Thrown(m, kind) ==
  CASE kind = "QueryFailed" -> Err(kind, TRUE, m.result, <<>>)
    [] kind = "LoadFailure" ->
         Err(kind, m.text = <<>>, IF m.text = <<>> THEN m.result ELSE 0, m.text)
    [] OTHER -> Err(kind, FALSE, 0, <<>>)

CallGuest(m, st, g) ==
  CASE st.fn = "hdt_query_triples" -> hdt_query_triples(m, st.lens, st.n, g)
    [] st.fn = "hdt_count_triples" -> hdt_count_triples(m, st.lens, g)
    [] st.fn = "hdt_load" -> hdt_load(m, st.n, g)
    [] st.fn = "hdt_size_in_bytes" -> hdt_size_in_bytes(m)
    [] OTHER -> hdt_get_text(m, st.fn, st.n, g)

\* The bytes [p, p + n) decoded as text
Decoded(m, st) ==
  LET c == MemGet(m.mem, m.ptr[st.slot])
  IN IF st.fn = "json"
     THEN [m EXCEPT !.decoded = IF c.kind = "json" /\ m.result = JsonLen(c.json) THEN c
                                 ELSE Payload("malformed", <<>>),
                    !.trace = Append(@, Ev("read", "", m.ptr[st.slot], m.result, 0,
                                           Len(m.trace), <<>>))]
     ELSE [m EXCEPT !.text = IF c.kind = "raw" /\ Len(c.bytes) = m.textLen THEN c.bytes
                              ELSE <<-1>>,
                    !.trace = Append(@, Ev("read", "", m.ptr[st.slot], m.textLen, 0,
                                           Len(m.trace), <<>>))]

\* One statement
Step(m, st, g) ==
  IF m.threw \/ ~Holds(m, st.when) THEN m
  ELSE CASE st.op = "requireLoaded" ->
              IF isLoaded THEN m ELSE Throw(m, Err("NotReady", FALSE, 0, <<>>))
         [] st.op = "requireExports" ->
              IF exports # NoInstance THEN m ELSE Throw(m, Err("NotReady", FALSE, 0, <<>>))
         [] st.op = "alloc" -> hdt_alloc(m, st.slot, st.n, g.alloc[st.k])
         [] st.op = "throwIfNull" ->
              IF m.ptr[st.slot] = 0 THEN Throw(m, Err("AllocationFailure", FALSE, 0, <<>>))
              ELSE m
         [] st.op = "view" ->
              [m EXCEPT !.view = Len(m.trace) + 1,
                        !.trace = Append(@, Ev("view", "", 0, 0, 0, 0, <<>>))]
         [] st.op = "write" ->
              [m EXCEPT !.mem = MemPut(@, m.ptr[st.slot], st.cell),
                        !.trace = Append(@, Ev("write", "", m.ptr[st.slot], st.n, 0,
                                               m.view, <<>>))]
         [] st.op = "read" ->
              Log(m, Ev("read", "", m.ptr[st.slot], st.n, 0, m.view, <<>>))
         [] st.op = "decode" -> Decoded(Log(m, Ev("view", "", 0, 0, 0, 0, <<>>)), st)
         [] st.op = "call" -> CallGuest(m, st, g)
         [] st.op = "free" -> hdt_free(m, m.ptr[st.slot], st.n)
         [] st.op = "throw" -> Throw(m, Thrown(m, st.fn))
         [] st.op = "parse" ->
              IF m.decoded.kind = "json" THEN [m EXCEPT !.value = m.decoded.json]
              ELSE Throw(m, Err("SyntaxError", FALSE, 0, <<>>))
         [] st.op = "number" -> [m EXCEPT !.num = NumberOf(m.result)]
         [] st.op = "clear" -> [m EXCEPT !.text = <<>>, !.textLen = 0]
         [] OTHER -> m

RECURSIVE RunFrom(_, _, _, _)
RunFrom(m, prog, k, g) ==
  IF k > Len(prog) THEN m
  ELSE One({RunFrom(x, prog, k + 1, g) : x \in {Step(m, prog[k], g)}})

\* The method run to its end on the current state
Run(program, g) == One({RunFrom(Start, prog, 1, g) : prog \in {program}})

\* `subject ? this.textEncoder.encode(subject) : new Uint8Array(0)`
PatternBytes(v) == IF Truthy(v) THEN encode(v.s) ELSE <<>>

\* The statements of one pattern position, made only when the argument is truthy
AllocFilter(v, slot, k) ==
  IF Truthy(v) THEN <<AllocStmt(slot, Len(PatternBytes(v)), k)>> ELSE <<>>
WriteFilter(v, slot) ==
  IF Truthy(v) THEN <<WriteStmt(slot, Raw(PatternBytes(v)), Len(PatternBytes(v)))>> ELSE <<>>
FreeFilter(v, slot) ==
  IF Truthy(v) THEN <<FreeStmt(slot, Len(PatternBytes(v)))>> ELSE <<>>

PatternLens(subject, predicate, object) ==
  <<Len(PatternBytes(subject)), Len(PatternBytes(predicate)), Len(PatternBytes(object))>>

\* queryTriples with the error path of line 178 left out: the output buffer is not
\* freed when the status is negative
queryTriplesKeepsOutput(subject, predicate, object) ==
  <<RequireLoaded>>
  \o AllocFilter(subject, "subject", 1)
  \o AllocFilter(predicate, "predicate", 2)
  \o AllocFilter(object, "object", 3)
  \o <<ViewStmt>>
  \o WriteFilter(subject, "subject")
  \o WriteFilter(predicate, "predicate")
  \o WriteFilter(object, "object")
  \o <<AllocStmt("output", outputCapacity, 4),
       CallStmt("hdt_query_triples", outputCapacity, PatternLens(subject, predicate, object))>>
  \o FreeFilter(subject, "subject")
  \o FreeFilter(predicate, "predicate")
  \o FreeFilter(object, "object")
  \o <<When("negative", ThrowStmt("QueryFailed")),
       DecodeStmt("output", "json"),
       FreeStmt("output", outputCapacity),
       ParseStmt>>

\* HdtWasm.queryTriples
\* queryTriples with the view of line 151 taken before the filters are allocated
queryTriplesEarlyView(subject, predicate, object) ==
  <<RequireLoaded, ViewStmt>>
  \o AllocFilter(subject, "subject", 1)
  \o AllocFilter(predicate, "predicate", 2)
  \o AllocFilter(object, "object", 3)
  \o WriteFilter(subject, "subject")
  \o WriteFilter(predicate, "predicate")
  \o WriteFilter(object, "object")
  \o <<AllocStmt("output", outputCapacity, 4),
       CallStmt("hdt_query_triples", outputCapacity, PatternLens(subject, predicate, object))>>
  \o FreeFilter(subject, "subject")
  \o FreeFilter(predicate, "predicate")
  \o FreeFilter(object, "object")
  \o <<When("negative", FreeStmt("output", outputCapacity)),
       When("negative", ThrowStmt("QueryFailed")),
       DecodeStmt("output", "json"),
       FreeStmt("output", outputCapacity),
       ParseStmt>>

\* queryTriples with the output buffer freed before its bytes are decoded
queryTriplesFreesFirst(subject, predicate, object) ==
  <<RequireLoaded>>
  \o AllocFilter(subject, "subject", 1)
  \o AllocFilter(predicate, "predicate", 2)
  \o AllocFilter(object, "object", 3)
  \o <<ViewStmt>>
  \o WriteFilter(subject, "subject")
  \o WriteFilter(predicate, "predicate")
  \o WriteFilter(object, "object")
  \o <<AllocStmt("output", outputCapacity, 4),
       CallStmt("hdt_query_triples", outputCapacity, PatternLens(subject, predicate, object))>>
  \o FreeFilter(subject, "subject")
  \o FreeFilter(predicate, "predicate")
  \o FreeFilter(object, "object")
  \o <<FreeStmt("output", outputCapacity),
       When("negative", ThrowStmt("QueryFailed")),
       DecodeStmt("output", "json"),
       ParseStmt>>

queryTriplesProgram(subject, predicate, object) ==
  <<RequireLoaded>>
  \o AllocFilter(subject, "subject", 1)
  \o AllocFilter(predicate, "predicate", 2)
  \o AllocFilter(object, "object", 3)
  \o <<ViewStmt>>
  \o WriteFilter(subject, "subject")
  \o WriteFilter(predicate, "predicate")
  \o WriteFilter(object, "object")
  \o <<AllocStmt("output", outputCapacity, 4),
       CallStmt("hdt_query_triples", outputCapacity, PatternLens(subject, predicate, object))>>
  \o FreeFilter(subject, "subject")
  \o FreeFilter(predicate, "predicate")
  \o FreeFilter(object, "object")
  \o <<When("negative", FreeStmt("output", outputCapacity)),
       When("negative", ThrowStmt("QueryFailed")),
       DecodeStmt("output", "json"),
       FreeStmt("output", outputCapacity),
       ParseStmt>>

queryTriples(subject, predicate, object, g) ==
  Run(queryTriplesProgram(subject, predicate, object), g)

\* countTriples that takes every string, the empty one included, as a filter given
countTriplesNullish(subject, predicate, object) ==
  <<RequireLoaded>>
  \o (IF subject.kind = "string" THEN <<AllocStmt("subject", Len(encode(subject.s)), 1)>> ELSE <<>>)
  \o (IF predicate.kind = "string"
      THEN <<AllocStmt("predicate", Len(encode(predicate.s)), 2)>> ELSE <<>>)
  \o (IF object.kind = "string" THEN <<AllocStmt("object", Len(encode(object.s)), 3)>> ELSE <<>>)
  \o <<ViewStmt>>
  \o WriteFilter(subject, "subject")
  \o WriteFilter(predicate, "predicate")
  \o WriteFilter(object, "object")
  \o <<CallStmt("hdt_count_triples", 0, PatternLens(subject, predicate, object))>>
  \o (IF subject.kind = "string" THEN <<FreeStmt("subject", Len(encode(subject.s)))>> ELSE <<>>)
  \o (IF predicate.kind = "string"
      THEN <<FreeStmt("predicate", Len(encode(predicate.s)))>> ELSE <<>>)
  \o (IF object.kind = "string" THEN <<FreeStmt("object", Len(encode(object.s)))>> ELSE <<>>)
  \o <<NumberStmt>>

\* HdtWasm.countTriples
countTriplesProgram(subject, predicate, object) ==
  <<RequireLoaded>>
  \o AllocFilter(subject, "subject", 1)
  \o AllocFilter(predicate, "predicate", 2)
  \o AllocFilter(object, "object", 3)
  \o <<ViewStmt>>
  \o WriteFilter(subject, "subject")
  \o WriteFilter(predicate, "predicate")
  \o WriteFilter(object, "object")
  \o <<CallStmt("hdt_count_triples", 0, PatternLens(subject, predicate, object))>>
  \o FreeFilter(subject, "subject")
  \o FreeFilter(predicate, "predicate")
  \o FreeFilter(object, "object")
  \o <<NumberStmt>>

countTriples(subject, predicate, object, g) ==
  Run(countTriplesProgram(subject, predicate, object), g)

\* HdtWasm.getRustDebugLog, as loadHdt calls it
getRustDebugLog ==
  IF caps.log
  THEN <<AllocStmt("scratch", logBufferCapacity, 2),
         CallStmt("hdt_get_debug_log", logBufferCapacity, <<0, 0, 0>>),
         When("text", DecodeStmt("scratch", "text")),
         FreeStmt("scratch", logBufferCapacity)>>
  ELSE <<>>

\* HdtWasm.getLastError, as loadHdt calls it: only when hdt_load returned nonzero
getLastError ==
  <<When("nonzero", ClearStmt)>>
  \o IF caps.err
     THEN <<When("nonzero", AllocStmt("scratch", errorBufferCapacity, 3)),
            When("nonzero", CallStmt("hdt_get_last_error", errorBufferCapacity, <<0, 0, 0>>)),
            When("nonzeroText", DecodeStmt("scratch", "text")),
            When("nonzero", FreeStmt("scratch", errorBufferCapacity))>>
     ELSE <<>>

\* HdtWasm.loadHdt
loadHdtProgram(data) ==
  <<RequireLoaded,
    AllocStmt("input", data.len, 1),
    ThrowIfNull("input"),
    ViewStmt,
    WriteStmt("input", File(data), data.len),
    ReadStmt("input", 20),
    CallStmt("hdt_load", data.len, <<0, 0, 0>>)>>
  \o getRustDebugLog
  \o <<FreeStmt("input", data.len)>>
  \o getLastError
  \o <<When("nonzero", ThrowStmt("LoadFailure"))>>

loadHdt(data, g) == Run(loadHdtProgram(data), g)

\* HdtWasm.sizeInBytes
sizeInBytes ==
  Run(<<RequireExports, CallStmt("hdt_size_in_bytes", 0, <<0, 0, 0>>), NumberStmt>>, NoFault)

-----------------------------------------------------------------------------
(* dataset.ts: term conversion, HdtDatasetCore *)

XsdString == <<120, 115>>    \* stands for the IRI of xsd:string
LangString == <<108, 115>>   \* stands for the IRI of rdf:langString

\* String.prototype.substring(2)
Substring2(v) == IF Len(v) <= 2 THEN <<>> ELSE SubSeq(v, 3, Len(v))

\* An RDF/JS term made by the data factory
RdfTerm(tt, v, lang, dt) ==
  [kind |-> "term", termType |-> tt, value |-> v, language |-> lang, datatype |-> dt]
DefaultGraph == RdfTerm("DefaultGraph", <<>>, <<>>, <<>>)

KnownTermType(t) == t.termType \in {"NamedNode", "BlankNode", "Literal"}

\* The Literal case with the datatype tested before the language
structuredTermDatatypeFirst(t) ==
  CASE t.termType = "NamedNode" -> RdfTerm("NamedNode", t.value, <<>>, <<>>)
    [] t.termType = "BlankNode" -> RdfTerm("BlankNode", Substring2(t.value), <<>>, <<>>)
    [] OTHER -> IF t.datatype # <<>> THEN RdfTerm("Literal", t.value, t.language, t.datatype)
                ELSE IF t.language # <<>> THEN RdfTerm("Literal", t.value, t.language, LangString)
                ELSE RdfTerm("Literal", t.value, <<>>, XsdString)

\* structuredTermToRdfJs, for a term of known type
structuredTermToRdfJs(t) ==
  CASE t.termType = "NamedNode" -> RdfTerm("NamedNode", t.value, <<>>, <<>>)
    [] t.termType = "BlankNode" -> RdfTerm("BlankNode", Substring2(t.value), <<>>, <<>>)
    [] OTHER -> IF t.language # <<>> THEN RdfTerm("Literal", t.value, t.language, LangString)
                ELSE IF t.datatype # <<>> THEN RdfTerm("Literal", t.value, <<>>, t.datatype)
                ELSE RdfTerm("Literal", t.value, <<>>, XsdString)

\* structuredTripleToQuad
structuredTripleToQuad(t) ==
  [subject |-> structuredTermToRdfJs(t.subject),
   predicate |-> structuredTermToRdfJs(t.predicate),
   object |-> structuredTermToRdfJs(t.object),
   graph |-> DefaultGraph]

\* structuredTermToRdfJs as called: value: the term made, or the error of `default:`
ConvertTerm(t) ==
  IF KnownTermType(t) THEN [Start EXCEPT !.value = <<structuredTermToRdfJs(t)>>]
  ELSE Throw(Start, Err("UnknownTermShape", FALSE, 0, <<>>))

KnownTriple(t) ==
  KnownTermType(t.subject) /\ KnownTermType(t.predicate) /\ KnownTermType(t.object)

NullSize == <<>>

\* The getter with `!this._size` for `this._size === null`: a cached 0 counts again
DatasetSizeFalsy(g) ==
  IF size_ = NullSize \/ size_ = <<0>>
  THEN One({IF r.threw THEN r ELSE [r EXCEPT !.cache = <<r.num>>] :
            r \in {countTriples(Null, Null, Null, g)}})
  ELSE [Start EXCEPT !.num = size_[1]]

\* The getter storing a count although the count call failed
DatasetSizeCachesFailure(g) ==
  IF size_ = NullSize
  THEN One({[r EXCEPT !.cache = <<r.num>>] : r \in {countTriples(Null, Null, Null, g)}})
  ELSE [Start EXCEPT !.num = size_[1]]

\* HdtDatasetCore.size (getter)
DatasetSize(g) ==
  IF size_ = NullSize
  THEN One({IF r.threw THEN r ELSE [r EXCEPT !.cache = <<r.num>>] :
            r \in {countTriples(Null, Null, Null, g)}})
  ELSE [Start EXCEPT !.num = size_[1]]

\* `quad.subject?.value`: undefined when the term is null or undefined
ValueOf(t) == IF t.kind = "term" THEN Str(t.value) ELSE Undefined

\* `results.some(...)` of has
SomeEqual(results, quad) ==
  \E i \in 1..Len(results) :
    /\ Str(results[i].subject.value) = ValueOf(quad.subject)
    /\ Str(results[i].predicate.value) = ValueOf(quad.predicate)
    /\ Str(results[i].object.value) = ValueOf(quad.object)

\* HdtDatasetCore.has; num: 1 for true, 0 for false
DatasetHas(quad, g) ==
  One({IF r.threw THEN r
       ELSE [r EXCEPT !.num = IF SomeEqual(r.value, quad) THEN 1 ELSE 0, !.value = <<>>] :
       r \in {queryTriples(ValueOrNull(quad.subject), ValueOrNull(quad.predicate),
                           ValueOrNull(quad.object), g)}})

\* `graph && !graph.equals(factory.defaultGraph())`
OtherGraph(graph) == graph.kind = "term" /\ graph.termType # "DefaultGraph"

\* HdtMatchResult.size
ResultSize(triples) == Len(triples)

\* match without the test of the graph argument
DatasetMatchAnyGraph(subject, predicate, object, graph, g) ==
  One({IF r.threw THEN r ELSE [r EXCEPT !.num = ResultSize(r.value)] :
       r \in {queryTriples(ValueOrNull(subject), ValueOrNull(predicate),
                           ValueOrNull(object), g)}})

\* HdtDatasetCore.match; value: the triples of the HdtMatchResult, num: its size
DatasetMatch(subject, predicate, object, graph, g) ==
  IF OtherGraph(graph) THEN Start
  ELSE One({IF r.threw THEN r ELSE [r EXCEPT !.num = ResultSize(r.value)] :
            r \in {queryTriples(ValueOrNull(subject), ValueOrNull(predicate),
                                ValueOrNull(object), g)}})

\* HdtDatasetCore[Symbol.iterator], run to the end; value: the quads yielded
DatasetIterate(g) ==
  One({IF r.threw THEN r
       ELSE IF \E i \in 1..Len(r.value) : ~KnownTriple(r.value[i])
       THEN Throw(r, Err("UnknownTermShape", FALSE, 0, <<>>))
       ELSE [r EXCEPT !.value = [i \in 1..Len(r.value) |-> structuredTripleToQuad(r.value[i])],
                      !.num = Len(r.value)] :
       r \in {queryTriples(Null, Null, Null, g)}})

\* HdtDatasetCore.queryRaw
DatasetQueryRaw(subject, predicate, object, g) == queryTriples(subject, predicate, object, g)

\* countMatches over the query path: the triples are fetched, decoded and counted
DatasetCountByQuery(subject, predicate, object, g) ==
  One({IF r.threw THEN r ELSE [r EXCEPT !.num = Len(r.value), !.value = <<>>] :
       r \in {queryTriples(ValueOrNull(subject), ValueOrNull(predicate),
                           ValueOrNull(object), g)}})

\* HdtDatasetCore.countMatches
DatasetCountMatches(subject, predicate, object, g) ==
  countTriples(ValueOrNull(subject), ValueOrNull(predicate), ValueOrNull(object), g)

\* add / delete as a silent no-op
DatasetMutateSilently == Start

\* HdtDatasetCore.add / delete
DatasetMutate == Throw(Start, Err("Immutable", FALSE, 0, <<>>))

-----------------------------------------------------------------------------
(* dataset.ts: HdtMatchResult, the object match returns, over its triples *)

\* `subject && ...`: a term is truthy, null and undefined are not
Given(t) == t.kind = "term"

\* HdtMatchResult.has; num: 1 for true, 0 for false
ResultHas(triples, quad) ==
  [Start EXCEPT !.num =
     IF \E i \in 1..Len(triples) : /\ triples[i].subject.value = quad.subject.value
                                   /\ triples[i].predicate.value = quad.predicate.value
                                   /\ triples[i].object.value = quad.object.value
     THEN 1 ELSE 0]

\* The filter of HdtMatchResult.match
Kept(t, subject, predicate, object) ==
  /\ ~(Given(subject) /\ t.subject.value # subject.value)
  /\ ~(Given(predicate) /\ t.predicate.value # predicate.value)
  /\ ~(Given(object) /\ t.object.value # object.value)

\* HdtMatchResult.match; value: the triples of the new HdtMatchResult, num: its size
ResultMatch(triples, subject, predicate, object, graph) ==
  IF OtherGraph(graph) THEN Start
  ELSE One({[Start EXCEPT !.value = kept, !.num = ResultSize(kept)] :
            kept \in {SelectSeq(triples, LAMBDA t : Kept(t, subject, predicate, object))}})

\* HdtMatchResult[Symbol.iterator], run to the end; value: the quads yielded
ResultIterate(triples) ==
  IF \E i \in 1..Len(triples) : ~KnownTriple(triples[i])
  THEN Throw(Start, Err("UnknownTermShape", FALSE, 0, <<>>))
  ELSE [Start EXCEPT !.value = [i \in 1..Len(triples) |-> structuredTripleToQuad(triples[i])],
                     !.num = Len(triples)]

\* HdtMatchResult.add / delete
ResultMutate == Throw(Start, Err("Immutable", FALSE, 0, <<>>))

-----------------------------------------------------------------------------
(* Inputs *)

Loaders == 1..MaxLoads

\* The guest builds: whether the module exports hdt_get_last_error and
\* hdt_get_debug_log
Capabilities == {[err |-> FALSE, log |-> FALSE], [err |-> TRUE, log |-> TRUE]}

TermA == Term("NamedNode", StrA)
TermP == Term("NamedNode", StrP)
TermB == Term("NamedNode", StrB)
LitEmpty == Term("Literal", <<>>)
LitE == Term("Literal", StrE)

\* The patterns (subject, predicate, object) the facade is asked about
Patterns == {<<NullTerm, NullTerm, NullTerm>>, <<TermA, UndefTerm, NullTerm>>,
             <<NullTerm, TermP, LitEmpty>>, <<TermA, TermP, TermB>>,
             <<UndefTerm, NullTerm, LitE>>}
Quads == {[subject |-> TermA, predicate |-> TermP, object |-> TermB],
          [subject |-> TermA, predicate |-> TermP, object |-> LitEmpty],
          [subject |-> TermB, predicate |-> TermP, object |-> LitE]}
\* Quads whose terms differ from those of the dataset in type only, and the quad
\* iteration yields for the triple with the blank node
HasQuads == Quads \cup {[subject |-> TermA, predicate |-> TermP, object |-> Term("Literal", StrB)],
                        [subject |-> Term("BlankNode", StrBlank), predicate |-> TermP,
                         object |-> LitE],
                        [subject |-> Term("BlankNode", SubSeq(StrBlank, 3, Len(StrBlank))),
                         predicate |-> TermP, object |-> LitE]}
NamedGraph == RdfTerm("NamedNode", StrA, <<>>, <<>>)
Graphs == {DefaultGraph, NamedGraph}
RawPatterns == {<<Null, Null, Null>>, <<Str(StrA), Undefined, Str(<<>>)>>,
                <<Undefined, Str(StrP), Str(StrE)>>}

\* One kind of fault at a time: some hdt_alloc calls return 0, or the target export fails
AllocFaults == {Guest(a, "ok", 0, "json", FALSE, TRUE) : a \in AllocPlans \ {AllOk}}
TrapFault == Guest(AllOk, "trap", 0, "json", FALSE, TRUE)
StatusFaults == {Guest(AllOk, "status", c, "json", FALSE, TRUE) : c \in ErrorCodes}
MalformedFault == Guest(AllOk, "ok", 0, "malformed", FALSE, TRUE)
LoadFaults == {Guest(AllOk, "status", 0, "json", msg, keep) : msg \in BOOLEAN, keep \in BOOLEAN}
ReadGuests == {NoFault, TrapFault, MalformedFault}
\* A guest of a later version: its terms carry a termType the host does not know
AlienFault == Guest(AllOk, "ok", 0, "alien", FALSE, TRUE)
FacadeGuests == {NoFault, AlienFault}

\* The allocation faults that can show in a call: those of buffers the call requests
FailsOnly(g, slots) == \A k \in 1..4 : g.alloc[k] \/ k \in slots
Requested(pat) == {k \in 1..3 : Truthy(ValueOrNull(pat[k]))}
QueryGuests(pat) ==
  ReadGuests \cup StatusFaults \cup {g \in AllocFaults : FailsOnly(g, Requested(pat) \cup {4})}
CountGuests(pat) == {NoFault, TrapFault} \cup {g \in AllocFaults : FailsOnly(g, Requested(pat))}
LoadGuests(data) ==
  {NoFault, TrapFault} \cup LoadFaults
  \cup {g \in AllocFaults : FailsOnly(g, {1} \cup (IF caps.log THEN {2} ELSE {})
                                        \cup (IF caps.err /\ data = Garbage THEN {3} ELSE {}))}

-----------------------------------------------------------------------------
(* Actions *)

\* The record of an operation: its arguments, what held when it started, how it ended
NoOp ==
  [op |-> "init", s |-> NullTerm, p |-> NullTerm, o |-> NullTerm, graph |-> UndefTerm,
   sizeBefore |-> NullSize, hdtBefore |-> NoSession, heapBefore |-> {},
   threw |-> FALSE, err |-> NoErr, value |-> <<>>, num |-> 0, trace |-> <<>>,
   from |-> <<>>]

Init ==
  /\ exports = NoInstance
  /\ memory = NoInstance
  /\ caps = [err |-> FALSE, log |-> FALSE]
  /\ loadPc = [i \in Loaders |-> "idle"]
  /\ hdt = NoSession
  /\ heap = {}
  /\ facade = FALSE
  /\ size_ = NullSize
  /\ loadHdtOk = FALSE
  /\ closed = FALSE
  /\ last = NoOp

\* The triples an operation of the facade worked from: those the bridge decoded
DecodedTriples(r) == IF r.decoded.kind = "json" THEN r.decoded.json ELSE <<>>

\* What an operation leaves in the guest, and the record of it
Done(op, s, p, o, graph, r) ==
  /\ heap' = r.heap
  /\ hdt' = r.hdt
  /\ last' = [op |-> op, s |-> s, p |-> p, o |-> o, graph |-> graph,
              sizeBefore |-> size_, hdtBefore |-> hdt, heapBefore |-> heap,
              threw |-> r.threw, err |-> r.err, value |-> r.value, num |-> r.num,
              trace |-> r.trace, from |-> DecodedTriples(r)]

bridgeVars == <<exports, memory, caps, loadPc>>
facadeVars == <<facade, size_, closed>>

\* JavaScript runs one turn at a time: nothing starts before the caller has taken the
\* outcome of the call before
Idle == last = NoOp

\* An operation is started only while few buffers are outstanding
MayStart == Idle /\ Cardinality(heap) < MaxLeaked

\* The caller takes the outcome (the value returned or the error thrown): the turn ends
Return ==
  /\ ~Idle
  /\ last' = NoOp
  /\ UNCHANGED <<bridgeVars, hdt, heap, facadeVars, loadHdtOk>>

\* load(): the call, up to its first await
LoadCall(i, src) ==
  /\ Idle
  /\ loadPc[i] = "idle"
  /\ loadPc' = [loadPc EXCEPT ![i] = IF src = "bytes" THEN "compile" ELSE "fetch"]
  /\ UNCHANGED <<exports, memory, caps, hdt, heap, facadeVars, loadHdtOk, last>>

\* load(): `await fetch(...)` settles; the response may be not ok
LoadFetched(i, ok) ==
  /\ Idle
  /\ loadPc[i] = "fetch"
  /\ loadPc' = [loadPc EXCEPT ![i] = IF ok THEN "body" ELSE "failed"]
  /\ UNCHANGED <<exports, memory, caps, hdt, heap, facadeVars, loadHdtOk, last>>

\* load(): `await response.arrayBuffer()` settles
LoadBody(i, ok) ==
  /\ Idle
  /\ loadPc[i] = "body"
  /\ loadPc' = [loadPc EXCEPT ![i] = IF ok THEN "compile" ELSE "failed"]
  /\ UNCHANGED <<exports, memory, caps, hdt, heap, facadeVars, loadHdtOk, last>>

\* load(): `await WebAssembly.compile(...)` settles
LoadCompiled(i, ok) ==
  /\ Idle
  /\ loadPc[i] = "compile"
  /\ loadPc' = [loadPc EXCEPT ![i] = IF ok THEN "instantiate" ELSE "failed"]
  /\ UNCHANGED <<exports, memory, caps, hdt, heap, facadeVars, loadHdtOk, last>>

\* The memory of `new WebAssembly.Memory(...)`, made by the host for load i
HostMemory(i) == 0 - i

\* load() of the 0.1.0 loader: the instance is given a memory the host created,
\* and the bridge keeps that memory
LoadInstantiatedImportedMemory(i, ok, c) ==
  /\ Idle
  /\ loadPc[i] = "instantiate"
  /\ loadPc' = [loadPc EXCEPT ![i] = IF ok THEN "done" ELSE "failed"]
  /\ IF ok
     THEN /\ exports' = i
          /\ memory' = HostMemory(i)
          /\ caps' = c
          /\ hdt' = NoSession
          /\ heap' = {}
     ELSE UNCHANGED <<exports, memory, caps, hdt, heap>>
  /\ UNCHANGED <<facadeVars, loadHdtOk, last>>

\* load(): `await WebAssembly.instantiate(...)` settles; the bridge takes the exports
\* and the exported memory of the new instance, whose guest state is fresh
\* (hdt_init_logging, when exported, touches nothing the bridge reads)
LoadInstantiated(i, ok, c) ==
  /\ Idle
  /\ loadPc[i] = "instantiate"
  /\ loadPc' = [loadPc EXCEPT ![i] = IF ok THEN "done" ELSE "failed"]
  /\ IF ok
     THEN /\ exports' = i
          /\ memory' = i
          /\ caps' = c
          /\ hdt' = NoSession
          /\ heap' = {}
     ELSE UNCHANGED <<exports, memory, caps, hdt, heap>>
  /\ UNCHANGED <<facadeVars, loadHdtOk, last>>

\* load(): `await WebAssembly.instantiate(...)` settles, the bridge takes exports and
\* memory, and the call of hdt_init_logging traps: load() rejects
LoadInitLoggingTraps(i, c) ==
  /\ Idle
  /\ loadPc[i] = "instantiate"
  /\ loadPc' = [loadPc EXCEPT ![i] = "failed"]
  /\ exports' = i
  /\ memory' = i
  /\ caps' = c
  /\ hdt' = NoSession
  /\ heap' = {}
  /\ UNCHANGED <<facadeVars, loadHdtOk, last>>

\* HdtWasm.loadHdt(data)
LoadHdt(data, g) ==
  /\ MayStart
  /\ \E r \in {loadHdt(data, g)} :
       /\ Done("loadHdt", NullTerm, NullTerm, NullTerm, UndefTerm, r)
       /\ loadHdtOk' = (loadHdtOk \/ ~r.threw)
  /\ UNCHANGED <<bridgeVars, facadeVars>>

\* new HdtDatasetCore(wasm)
NewDataset ==
  /\ Idle /\ ~facade
  /\ facade' = isLoaded
  /\ size_' = NullSize
  /\ closed' = FALSE
  /\ last' = [NoOp EXCEPT !.op = "new", !.threw = ~isLoaded, !.hdtBefore = hdt,
                          !.heapBefore = heap,
                          !.err = IF isLoaded THEN NoErr ELSE Err("NotReady", FALSE, 0, <<>>)]
  /\ UNCHANGED <<bridgeVars, hdt, heap, loadHdtOk>>

\* dataset.size
Size(g) ==
  /\ facade /\ MayStart
  /\ \E r \in {DatasetSize(g)} :
       /\ Done("size", NullTerm, NullTerm, NullTerm, UndefTerm, r)
       /\ size_' = r.cache
  /\ UNCHANGED <<bridgeVars, facade, closed, loadHdtOk>>

\* dataset.has(quad)
Has(quad, g) ==
  /\ facade /\ MayStart
  /\ \E r \in {DatasetHas(quad, g)} :
       Done("has", quad.subject, quad.predicate, quad.object, UndefTerm, r)
  /\ UNCHANGED <<bridgeVars, facadeVars, loadHdtOk>>

\* dataset.match(subject, predicate, object, graph)
Match(subject, predicate, object, graph, g) ==
  /\ facade /\ MayStart
  /\ \E r \in {DatasetMatch(subject, predicate, object, graph, g)} :
       Done("match", subject, predicate, object, graph, r)
  /\ UNCHANGED <<bridgeVars, facadeVars, loadHdtOk>>

\* for (const quad of dataset) ...
Iterate(g) ==
  /\ facade /\ MayStart
  /\ \E r \in {DatasetIterate(g)} :
       Done("iterate", NullTerm, NullTerm, NullTerm, UndefTerm, r)
  /\ UNCHANGED <<bridgeVars, facadeVars, loadHdtOk>>

\* dataset.queryRaw(subject, predicate, object)
QueryRaw(pat, g) ==
  /\ facade /\ MayStart
  /\ \E r \in {DatasetQueryRaw(pat[1], pat[2], pat[3], g)} :
       Done("queryRaw", NullTerm, NullTerm, NullTerm, UndefTerm, r)
  /\ UNCHANGED <<bridgeVars, facadeVars, loadHdtOk>>

\* dataset.countMatches(subject, predicate, object)
CountMatches(subject, predicate, object, g) ==
  /\ facade /\ MayStart
  /\ \E r \in {DatasetCountMatches(subject, predicate, object, g)} :
       Done("countMatches", subject, predicate, object, UndefTerm, r)
  /\ UNCHANGED <<bridgeVars, facadeVars, loadHdtOk>>

\* dataset.sizeInBytes()
SizeInBytes ==
  /\ Idle /\ facade
  /\ \E r \in {sizeInBytes} :
       Done("sizeInBytes", NullTerm, NullTerm, NullTerm, UndefTerm, r)
  /\ UNCHANGED <<bridgeVars, facadeVars, loadHdtOk>>

\* dataset.close()
Close ==
  /\ Idle /\ facade
  /\ size_' = NullSize
  /\ closed' = TRUE
  /\ last' = [NoOp EXCEPT !.op = "close", !.sizeBefore = size_, !.hdtBefore = hdt,
                          !.heapBefore = heap]
  /\ UNCHANGED <<bridgeVars, hdt, heap, facade, loadHdtOk>>

\* dataset.add() / dataset.delete()
Mutate(op) ==
  /\ Idle /\ facade
  /\ \E r \in {DatasetMutate} : Done(op, NullTerm, NullTerm, NullTerm, UndefTerm, r)
  /\ UNCHANGED <<bridgeVars, facadeVars, loadHdtOk>>

-----------------------------------------------------------------------------
(* The bridge called directly (HdtWasm is exported), and the operations of *)
(* an HdtMatchResult: the value a match has just returned                  *)

\* wasm.queryTriples(subject, predicate, object)
BridgeQuery(pat, g) ==
  /\ MayStart
  /\ \E r \in {queryTriples(pat[1], pat[2], pat[3], g)} :
       Done("queryTriples", NullTerm, NullTerm, NullTerm, UndefTerm, r)
  /\ UNCHANGED <<bridgeVars, facadeVars, loadHdtOk>>

\* wasm.countTriples(subject, predicate, object)
BridgeCount(pat, g) ==
  /\ MayStart
  /\ \E r \in {countTriples(pat[1], pat[2], pat[3], g)} :
       Done("countTriples", NullTerm, NullTerm, NullTerm, UndefTerm, r)
  /\ UNCHANGED <<bridgeVars, facadeVars, loadHdtOk>>

\* wasm.sizeInBytes()
BridgeSizeInBytes ==
  /\ Idle
  /\ \E r \in {sizeInBytes} :
       Done("wasm.sizeInBytes", NullTerm, NullTerm, NullTerm, UndefTerm, r)
  /\ UNCHANGED <<bridgeVars, facadeVars, loadHdtOk>>

\* The caller holds an HdtMatchResult: the last call returned one
HoldsResult == last.op \in {"match", "result.match"} /\ ~last.threw

\* The record of an operation on the HdtMatchResult held; nothing else changes
ResultDone(op, s, p, o, graph, r) ==
  /\ last' = [op |-> op, s |-> s, p |-> p, o |-> o, graph |-> graph,
              sizeBefore |-> size_, hdtBefore |-> hdt, heapBefore |-> heap,
              threw |-> r.threw, err |-> r.err, value |-> r.value, num |-> r.num,
              trace |-> r.trace, from |-> last.value]
  /\ heap' = r.heap
  /\ hdt' = r.hdt
  /\ UNCHANGED <<bridgeVars, facadeVars, loadHdtOk>>

\* result.has(quad)
ResultHasQuad(quad) ==
  /\ HoldsResult
  /\ \E r \in {ResultHas(last.value, quad)} :
       ResultDone("result.has", quad.subject, quad.predicate, quad.object, UndefTerm, r)

\* result.match(subject, predicate, object, graph)
ResultMatchPattern(subject, predicate, object, graph) ==
  /\ HoldsResult
  /\ \E r \in {ResultMatch(last.value, subject, predicate, object, graph)} :
       ResultDone("result.match", subject, predicate, object, graph, r)

\* for (const quad of result) ...
ResultIterateAll ==
  /\ HoldsResult
  /\ \E r \in {ResultIterate(last.value)} :
       ResultDone("result.iterate", NullTerm, NullTerm, NullTerm, UndefTerm, r)

\* result.add() / result.delete()
ResultMutateCall(op) ==
  /\ HoldsResult
  /\ \E r \in {ResultMutate} : ResultDone(op, NullTerm, NullTerm, NullTerm, UndefTerm, r)

Next ==
  \/ \E i \in Loaders, src \in {"bytes", "url"} : LoadCall(i, src)
  \/ \E i \in Loaders, ok \in BOOLEAN : LoadFetched(i, ok)
  \/ \E i \in Loaders, ok \in BOOLEAN : LoadBody(i, ok)
  \/ \E i \in Loaders, ok \in BOOLEAN : LoadCompiled(i, ok)
  \/ \E i \in Loaders, ok \in BOOLEAN, c \in Capabilities : LoadInstantiated(i, ok, c)
  \/ \E data \in Files : \E g \in LoadGuests(data) : LoadHdt(data, g)
  \/ NewDataset
  \/ \E g \in {NoFault, TrapFault} : Size(g)
  \/ \E quad \in Quads, g \in ReadGuests : Has(quad, g)
  \/ \E pat \in Patterns : \E g \in QueryGuests(pat) :
       Match(pat[1], pat[2], pat[3], UndefTerm, g)
  \/ \E graph \in Graphs : Match(NullTerm, TermP, NullTerm, graph, NoFault)
  \/ \E g \in ReadGuests : Iterate(g)
  \/ \E pat \in RawPatterns : QueryRaw(pat, NoFault)
  \/ \E pat \in Patterns : \E g \in CountGuests(pat) :
       CountMatches(pat[1], pat[2], pat[3], g)
  \/ SizeInBytes
  \/ Close
  \/ \E op \in {"add", "delete"} : Mutate(op)
  \/ Return

Spec == Init /\ [][Next]_vars

\* Several load() calls on one bridge, interleaved at their awaits, and the bridge
\* used in between
ConcurrentLoaders == 1..MaxConcurrentLoads

InitLoad ==
  /\ exports = NoInstance
  /\ memory = NoInstance
  /\ caps = [err |-> FALSE, log |-> FALSE]
  /\ loadPc = [i \in ConcurrentLoaders |-> "idle"]
  /\ hdt = NoSession
  /\ heap = {}
  /\ facade = FALSE
  /\ size_ = NullSize
  /\ loadHdtOk = FALSE
  /\ closed = FALSE
  /\ last = NoOp

NextLoad ==
  \/ \E i \in ConcurrentLoaders, src \in {"bytes", "url"} : LoadCall(i, src)
  \/ \E i \in ConcurrentLoaders, ok \in BOOLEAN : LoadFetched(i, ok)
  \/ \E i \in ConcurrentLoaders, ok \in BOOLEAN : LoadBody(i, ok)
  \/ \E i \in ConcurrentLoaders, ok \in BOOLEAN : LoadCompiled(i, ok)
  \/ \E i \in ConcurrentLoaders, ok \in BOOLEAN :
       LoadInstantiated(i, ok, [err |-> TRUE, log |-> TRUE])
  \/ \E i \in ConcurrentLoaders : LoadInitLoggingTraps(i, [err |-> TRUE, log |-> TRUE])
  \/ \E data \in Files : LoadHdt(data, NoFault)
  \/ BridgeQuery(<<Null, Null, Null>>, NoFault)
  \/ Return

SpecLoad == InitLoad /\ [][NextLoad]_vars

\* The pattern as a guest entry point is handed it: the method run up to the call of
\* the entry point, and for each position whether the pointer passed is null, the
\* length passed, and the bytes guest memory holds there at that moment
CallAt(prog) == CHOOSE i \in 1..Len(prog) : prog[i].op = "call"
Presented(prog, g) ==
  One({[k \in 1..3 |->
          [null |-> m.trace[Len(m.trace)].args[2 * k - 1] = 0,
           len |-> m.trace[Len(m.trace)].args[2 * k],
           bytes |-> FilterBytes(m, m.trace[Len(m.trace)].args[2 * k - 1],
                                 m.trace[Len(m.trace)].args[2 * k])]] :
       m \in {RunFrom(Start, SubSeq(prog, 1, CallAt(prog)), 1, g)}})

\* The arguments a caller of the bridge may pass at one position
PatternArgument == {Null, Undefined, Str(<<>>), Str(StrA), Str(StrE)}

\* A loaded bridge with a session, and a pattern about to be queried and counted
InitMarshal ==
  /\ exports = 1
  /\ memory = 1
  /\ caps = [err |-> TRUE, log |-> TRUE]
  /\ loadPc = [i \in Loaders |-> "done"]
  /\ hdt \in DatasetIds
  /\ heap = {}
  /\ facade = FALSE
  /\ size_ = NullSize
  /\ loadHdtOk = TRUE
  /\ closed = FALSE
  /\ last \in {[NoOp EXCEPT !.op = "pattern", !.from = <<s, p, o>>] :
                s \in PatternArgument, p \in PatternArgument, o \in PatternArgument}

\* wasm.queryTriples(s, p, o) on the pattern
MarshalQuery ==
  /\ last.op = "pattern"
  /\ \E r \in {queryTriples(last.from[1], last.from[2], last.from[3], NoFault)} :
       /\ heap' = r.heap
       /\ hdt' = r.hdt
       /\ last' = [last EXCEPT
                     !.op = "queried", !.threw = r.threw, !.err = r.err, !.trace = r.trace,
                     !.value = <<Presented(queryTriplesProgram(last.from[1], last.from[2],
                                                               last.from[3]), NoFault)>>]
  /\ UNCHANGED <<bridgeVars, facadeVars, loadHdtOk>>

\* wasm.countTriples(s, p, o) on the same pattern
MarshalCount ==
  /\ last.op = "queried"
  /\ \E r \in {countTriples(last.from[1], last.from[2], last.from[3], NoFault)} :
       /\ heap' = r.heap
       /\ hdt' = r.hdt
       /\ last' = [last EXCEPT
                     !.op = "counted", !.threw = r.threw, !.err = r.err, !.trace = r.trace,
                     !.num = r.num,
                     !.value = Append(last.value,
                                      Presented(countTriplesProgram(last.from[1], last.from[2],
                                                                    last.from[3]), NoFault))]
  /\ UNCHANGED <<bridgeVars, facadeVars, loadHdtOk>>

NextMarshal == MarshalQuery \/ MarshalCount

SpecMarshal == InitMarshal /\ [][NextMarshal]_vars

\* Number(bigint) on wide values. A 64-bit value is the sequence of its binary
\* digits, most significant first and without leading zeros; a JavaScript number
\* keeps MantissaBits significant digits and rounds to nearest, ties to even.
MantissaBits == 53

Zeros(n) == [i \in 1..n |-> 0]

RECURSIVE Increment(_)
Increment(bits) ==
  IF bits = <<>> THEN <<1>>
  ELSE IF bits[Len(bits)] = 0
       THEN [bits EXCEPT ![Len(bits)] = 1]
       ELSE Append(Increment(SubSeq(bits, 1, Len(bits) - 1)), 0)

\* The integer the number Number(b) stands for, as binary digits
NumberOfBigInt(b) ==
  IF Len(b) <= MantissaBits THEN b
  ELSE IF /\ b[MantissaBits + 1] = 1
          /\ \/ b[MantissaBits] = 1
             \/ \E i \in (MantissaBits + 2)..Len(b) : b[i] = 1
       THEN Increment(SubSeq(b, 1, MantissaBits)) \o Zeros(Len(b) - MantissaBits)
       ELSE SubSeq(b, 1, MantissaBits) \o Zeros(Len(b) - MantissaBits)

\* The values 2^(n-1) + low for the low values of LowBits digits
RECURSIVE Digits(_)
Digits(n) ==
  IF n = 0 THEN {<<>>} ELSE {Append(d, b) : d \in Digits(n - 1), b \in {0, 1}}
Widths == {LowBits + 1, MantissaBits, MantissaBits + 1, MantissaBits + 2, 64}
WideValues == {<<1>> \o Zeros(n - 1 - LowBits) \o low : n \in Widths, low \in Digits(LowBits)}

InitNumber ==
  /\ exports = NoInstance
  /\ memory = NoInstance
  /\ caps = [err |-> FALSE, log |-> FALSE]
  /\ loadPc = [i \in Loaders |-> "idle"]
  /\ hdt = NoSession
  /\ heap = {}
  /\ facade = FALSE
  /\ size_ = NullSize
  /\ loadHdtOk = FALSE
  /\ closed = FALSE
  /\ last \in {[NoOp EXCEPT !.op = "bigint", !.from = w] : w \in WideValues}

\* `return Number(count)` of countTriples, on the count the guest returned
CountToNumber ==
  /\ last.op = "bigint"
  /\ last' = [last EXCEPT !.op = "Number(count)", !.value = NumberOfBigInt(last.from)]
  /\ UNCHANGED <<bridgeVars, hdt, heap, facadeVars, loadHdtOk>>

\* `memoryView.set(bytes, Number(ptr))`, on the pointer hdt_alloc returned
PointerToNumber ==
  /\ last.op = "bigint"
  /\ last' = [last EXCEPT !.op = "Number(ptr)", !.value = NumberOfBigInt(last.from)]
  /\ UNCHANGED <<bridgeVars, hdt, heap, facadeVars, loadHdtOk>>

NextNumber == CountToNumber \/ PointerToNumber

SpecNumber == InitNumber /\ [][NextNumber]_vars

\* Term conversion alone: a structured term as the guest may deliver it
IdChars == {95, 58, 120}     \* "_", ":", "x"
RECURSIVE StringsUpTo(_)
StringsUpTo(n) ==
  IF n = 0 THEN {<<>>}
  ELSE StringsUpTo(n - 1) \cup {Append(v, c) : v \in StringsUpTo(n - 1), c \in IdChars}
LangEn == <<101, 110>>       \* "en"
XsdInteger == <<120, 105>>   \* stands for the IRI of xsd:integer
StructuredTerms ==
  {[termType |-> tt, value |-> v, language |-> lang, datatype |-> dt] :
     tt \in {"NamedNode", "BlankNode", "Literal", "Variable"}, v \in StringsUpTo(MaxIdLen),
     lang \in {<<>>, LangEn}, dt \in {<<>>, XsdString, XsdInteger}}

InitTerm ==
  /\ exports = NoInstance
  /\ memory = NoInstance
  /\ caps = [err |-> FALSE, log |-> FALSE]
  /\ loadPc = [i \in Loaders |-> "idle"]
  /\ hdt = NoSession
  /\ heap = {}
  /\ facade = FALSE
  /\ size_ = NullSize
  /\ loadHdtOk = FALSE
  /\ closed = FALSE
  /\ last \in {[NoOp EXCEPT !.op = "decoded", !.from = <<t>>] : t \in StructuredTerms}

\* structuredTermToRdfJs(term) on the term decoded
Convert ==
  /\ last.op = "decoded"
  /\ \E r \in {ConvertTerm(last.from[1])} :
       last' = [last EXCEPT !.op = "structuredTermToRdfJs", !.threw = r.threw,
                            !.err = r.err, !.value = r.value]
  /\ UNCHANGED <<bridgeVars, hdt, heap, facadeVars, loadHdtOk>>

NextTerm == Convert

SpecTerm == InitTerm /\ [][NextTerm]_vars

\* The facade, its match results and the bridge, called by a program that also
\* passes graphs, quads of every term type, and runs on a guest of a later version
NextFacade ==
  \/ \E i \in Loaders : LoadCall(i, "url")
  \/ \E i \in Loaders, ok \in BOOLEAN : LoadFetched(i, ok)
  \/ \E i \in Loaders : LoadBody(i, TRUE)
  \/ \E i \in Loaders : LoadCompiled(i, TRUE)
  \/ \E i \in Loaders, ok \in BOOLEAN : LoadInstantiated(i, ok, [err |-> TRUE, log |-> TRUE])
  \/ \E data \in Files : LoadHdt(data, NoFault)
  \/ NewDataset
  \/ \E pat \in RawPatterns : BridgeQuery(pat, NoFault)
  \/ \E pat \in RawPatterns : BridgeCount(pat, NoFault)
  \/ BridgeSizeInBytes
  \/ Size(NoFault)
  \/ \E quad \in HasQuads, g \in FacadeGuests : Has(quad, g)
  \/ \E pat \in Patterns, graph \in {UndefTerm} \cup Graphs, g \in FacadeGuests :
       Match(pat[1], pat[2], pat[3], graph, g)
  \/ \E g \in FacadeGuests : Iterate(g)
  \/ \E op \in {"add", "delete"} : Mutate(op)
  \/ \E quad \in HasQuads : ResultHasQuad(quad)
  \/ \E pat \in Patterns, graph \in {UndefTerm} \cup Graphs :
       ResultMatchPattern(pat[1], pat[2], pat[3], graph)
  \/ ResultIterateAll
  \/ \E op \in {"result.add", "result.delete"} : ResultMutateCall(op)
  \/ Return

SpecFacade == Init /\ [][NextFacade]_vars

-----------------------------------------------------------------------------
(* What the last operation did at the boundary *)

ReadOps == {"size", "has", "match", "iterate", "queryRaw", "countMatches"}

Events == DOMAIN last.trace
CallsOf(fn) == {i \in Events : last.trace[i].ev = "call" /\ last.trace[i].fn = fn}
GuestCalls == {i \in Events : last.trace[i].ev = "call"}
ZeroAllocs == {i \in Events : last.trace[i].ev = "alloc" /\ last.trace[i].ret = 0}
Allocs == {i \in Events : last.trace[i].ev = "alloc" /\ last.trace[i].ret # 0}
FreesOf(i) == {j \in Events : /\ j > i
                              /\ last.trace[j].ev = "free"
                              /\ last.trace[j].ptr = last.trace[i].ptr
                              /\ last.trace[j].len = last.trace[i].len}
FailedQueries == {i \in CallsOf("hdt_query_triples") : last.trace[i].ret < 0}

\* A position is constrained when its argument is a term; the triple then carries the
\* term's value there
Agrees(t, arg) == arg.kind = "term" => structuredTermToRdfJs(t).value = arg.value
Satisfies(t, s, p, o) ==
  Agrees(t.subject, s) /\ Agrees(t.predicate, p) /\ Agrees(t.object, o)
TrueCount(d, s, p, o) == Len(SelectSeq(Dataset(d), LAMBDA t : Satisfies(t, s, p, o)))

-----------------------------------------------------------------------------
(* Claims *)

\* C1: when an operation has returned or thrown, every buffer it obtained from
\* hdt_alloc has been passed to hdt_free exactly once, and between two top-level
\* operations no host-requested guest buffer is outstanding.
C1_BuffersFreedOnce ==
  /\ heap = {}
  /\ \A i \in Allocs : Cardinality(FreesOf(i)) = 1

\* C2: after close(), every later read on the facade fails with NotLoaded and makes
\* no guest call.
C2_ReadsFailAfterClose ==
  closed /\ loadHdtOk /\ last.op \in ReadOps =>
    last.threw /\ last.err.kind = "NotLoaded" /\ last.trace = <<>>

\* C3: a facade exists only after a successful loadHdt, and a read made while no
\* loadHdt call has succeeded fails with NotLoaded without invoking hdt_query_triples
\* or hdt_count_triples.
C3_ReadsNeedSession ==
  /\ facade => loadHdtOk
  /\ last.op \in ReadOps /\ ~loadHdtOk =>
       /\ last.threw /\ last.err.kind = "NotLoaded"
       /\ CallsOf("hdt_query_triples") = {} /\ CallsOf("hdt_count_triples") = {}

\* C4: size caching.  A size read made while _size is set makes no guest call and
\* returns the cached value, which stays; a size read made while _size is unset and
\* that returns has issued exactly one guest call, hdt_count_triples with all three
\* filters absent, returns that call's result and caches it; close() unsets _size; no
\* other operation touches _size.  Hence a run of size reads with no close() between
\* them counts once, in its first read that returns, and all of them return that
\* value; after close() the next size read counts afresh.
C4_SizeCaching ==
  /\ last.op = "size" /\ last.sizeBefore # NullSize =>
       /\ last.trace = <<>> /\ ~last.threw
       /\ last.num = last.sizeBefore[1] /\ size_ = last.sizeBefore
  /\ last.op = "size" /\ last.sizeBefore = NullSize /\ ~last.threw =>
       /\ GuestCalls = CallsOf("hdt_count_triples")
       /\ Cardinality(GuestCalls) = 1
       /\ \A i \in GuestCalls : /\ last.trace[i].args = <<0, 0, 0, 0, 0, 0>>
                                /\ last.trace[i].ret = last.num
       /\ size_ = <<last.num>>
  /\ last.op = "size" /\ last.sizeBefore = NullSize /\ last.threw => size_ = NullSize
  /\ last.op = "close" => size_ = NullSize
  /\ last.op \notin {"size", "close", "new", "init"} => size_ = last.sizeBefore

\* C4 witness: a size read served from the cache
C4_Witness ==
  last.op = "size" /\ last.sizeBefore = <<2>> /\ last.num = 2 /\ last.trace = <<>>

\* C5: when hdt_alloc has returned 0 the operation fails with an allocation failure:
\* nothing is written at pointer 0, no guest function is called afterwards, and
\* hdt_free is not called on pointer 0.
C5_ZeroPointerIsFatal ==
  \A i \in ZeroAllocs :
    /\ last.threw /\ last.err.kind = "AllocationFailure"
    /\ \A j \in Events : j > i =>
         /\ ~(last.trace[j].ev = "write" /\ last.trace[j].ptr = 0)
         /\ last.trace[j].ev # "call"
         /\ ~(last.trace[j].ev = "free" /\ last.trace[j].ptr = 0)

\* C6: when hdt_query_triples has returned a negative status, the operation throws a
\* QueryFailed error carrying that status and returns no result; guest memory is not
\* read, hdt_query_triples was called once, and every buffer the operation allocated
\* was freed, after the call, so that the guest heap is as it was before.
C6_NegativeStatus ==
  \A i \in FailedQueries :
    /\ last.threw /\ last.err.kind = "QueryFailed" /\ last.err.carries
    /\ last.err.code = last.trace[i].ret
    /\ last.value = <<>>
    /\ \A j \in Events : last.trace[j].ev # "read"
    /\ CallsOf("hdt_query_triples") = {i}
    /\ \A a \in Allocs : a < i /\ \E f \in FreesOf(a) : f > i
    /\ \A j \in Events : j > i => last.trace[j].ev = "free"
    /\ heap = last.heapBefore

\* C6 witness: a match refused because its payload exceeds the output capacity
C6_Witness ==
  /\ last.op = "match" /\ last.threw /\ last.err.kind = "QueryFailed"
  /\ last.err.code = CapacityCode
  /\ Cardinality(Allocs) = 2

\* C7: after a query has failed for want of output capacity the bridge is ready, the
\* session and the cached size are as before, no buffer is left, and countMatches
\* for the same pattern returns the true number of matching triples.
C7_FailureLeavesBridgeIntact ==
  /\ last.op \in {"match", "has", "iterate"}
  /\ last.threw /\ last.err.kind = "QueryFailed" /\ last.err.code = CapacityCode
  /\ ZeroAllocs = {}
  => /\ isLoaded /\ hdt = last.hdtBefore /\ hdt # NoSession
     /\ heap = last.heapBefore /\ size_ = last.sizeBefore
     /\ \E r \in {DatasetCountMatches(last.s, last.p, last.o, NoFault)} :
          ~r.threw /\ r.num = TrueCount(hdt, last.s, last.p, last.o)

\* C8: every triple match(s, p, o) returns carries, at each position whose argument
\* is a term, that term's value, the empty string included.
C8_MatchSatisfiesPattern ==
  last.op = "match" /\ ~last.threw /\ ZeroAllocs = {} =>
    \A i \in 1..Len(last.value) : Satisfies(last.value[i], last.s, last.p, last.o)

\* C9: countMatches(s, p, o) equals the number of triples match(s, p, o) returned.
C9_CountEqualsMatchSize ==
  last.op = "match" /\ ~last.threw /\ ~OtherGraph(last.graph) =>
    \E r \in {DatasetCountMatches(last.s, last.p, last.o, NoFault)} :
      ~r.threw /\ r.num = last.num

\* C10: at any point, the value size returns equals countMatches(null, null, null).
C10_SizeEqualsCountAll ==
  last.op = "size" /\ ~last.threw =>
    \E r \in {DatasetCountMatches(NullTerm, NullTerm, NullTerm, NoFault)} :
      ~r.threw /\ r.num = last.num

\* C14: a size read or a countMatches call invokes hdt_count_triples at most once,
\* never invokes hdt_query_triples, never allocates an output buffer and never
\* decodes a payload.
C14_CountPathOnly ==
  last.op \in {"size", "countMatches"} =>
    /\ CallsOf("hdt_query_triples") = {}
    /\ Cardinality(CallsOf("hdt_count_triples")) <= 1
    /\ \A i \in Events :
         /\ ~(last.trace[i].ev = "alloc" /\ last.trace[i].len = outputCapacity)
         /\ last.trace[i].ev # "read"

\* A count of two triples, from one call of hdt_count_triples
C14_Witness ==
  /\ last.op = "countMatches" /\ ~last.threw /\ last.num = 2
  /\ Cardinality(CallsOf("hdt_count_triples")) = 1

\* C15: when hdt_load returns a non-zero status, loadHdt fails with a load failure
\* that carries that status code, whether or not the guest reports a message.
C15_LoadFailureCarriesCode ==
  \A i \in CallsOf("hdt_load") :
    (last.op = "loadHdt" /\ ZeroAllocs = {} /\ last.trace[i].ret # 0) =>
      /\ last.threw
      /\ last.err.kind = "LoadFailure"
      /\ last.err.carries
      /\ last.err.code = last.trace[i].ret

\* The filter arguments (pointer, length) of a query or count call
FilterArgs(c) == {<<last.trace[c].args[2 * k - 1], last.trace[c].args[2 * k]>> : k \in 1..3}

\* The allocation behind event j's pointer is outstanding: made before j with a
\* non-zero result and the same length, and not freed since
Outstanding(j, ptr, len) ==
  \E i \in Allocs :
    /\ i < j
    /\ last.trace[i].ptr = ptr /\ last.trace[i].len = len
    /\ \A k \in (i + 1)..(j - 1) : ~(last.trace[k].ev = "free" /\ last.trace[k].ptr = ptr)

\* C20: in queryTriples and countTriples an absent filter is passed as pointer 0 and
\* length 0; a present filter is passed with the pointer and the length of its
\* allocation; hdt_free is called only with the pointer and the length of an
\* allocation that is outstanding.
C20_FiltersMarshaled ==
  last.op \in ReadOps =>
    /\ \A c \in CallsOf("hdt_query_triples") \cup CallsOf("hdt_count_triples") :
         \A a \in FilterArgs(c) :
           IF a[2] = 0 THEN a[1] = 0 ELSE Outstanding(c, a[1], a[2])
    /\ \A j \in Events :
         last.trace[j].ev = "free" => Outstanding(j, last.trace[j].ptr, last.trace[j].len)

\* A term handed in by the caller, as the data factory made it: a literal without
\* language is an xsd:string
AsRdfTerm(t) ==
  RdfTerm(t.termType, t.value, <<>>, IF t.termType = "Literal" THEN XsdString ELSE <<>>)

\* Some quad of the triples, converted, equals (s, p, o) term by term
Appears(triples, s, p, o) ==
  \E i \in 1..Len(triples) :
    /\ KnownTriple(triples[i])
    /\ structuredTripleToQuad(triples[i]).subject = AsRdfTerm(s)
    /\ structuredTripleToQuad(triples[i]).predicate = AsRdfTerm(p)
    /\ structuredTripleToQuad(triples[i]).object = AsRdfTerm(o)

\* C11: has(t) is true if and only if some quad of match(t.subject, t.predicate,
\* t.object) equals t term by term (term type, value, language, datatype).
C11_HasIffInMatch ==
  (last.op = "has" /\ ~last.threw /\ \A i \in 1..Len(last.from) : KnownTriple(last.from[i])) =>
    (last.num = 1 <=>
       Appears(DatasetMatch(last.s, last.p, last.o, UndefTerm, NoFault).value,
               last.s, last.p, last.o))

\* C12: match with a graph that is not the default graph, on the facade and on a
\* match result, returns a result of size 0 whose iteration yields nothing, and makes
\* no guest call.
C12_OtherGraphIsEmpty ==
  (last.op \in {"match", "result.match"} /\ OtherGraph(last.graph)) =>
    /\ ~last.threw /\ last.num = 0 /\ last.value = <<>>
    /\ last.trace = <<>>
    /\ ~ResultIterate(last.value).threw /\ ResultIterate(last.value).value = <<>>

\* A match with a named graph on a result that holds triples
C12_Witness ==
  /\ last.op = "result.match" /\ OtherGraph(last.graph)
  /\ last.from # <<>> /\ last.s = NullTerm /\ last.num = 0

MutateOps == {"add", "delete", "result.add", "result.delete"}

\* C13: add and delete, on the facade and on a match result, fail with a read-only
\* error, make no guest call, and leave the cached size, the session and the guest
\* heap as they were: the next size read returns what it would have returned.
C13_MutationsFail ==
  last.op \in MutateOps =>
    /\ last.threw /\ last.err.kind = "Immutable"
    /\ last.trace = <<>>
    /\ size_ = last.sizeBefore /\ hdt = last.hdtBefore /\ heap = last.heapBefore

\* A delete on a match result while the facade holds a cached size
C13_Witness ==
  last.op = "result.delete" /\ last.threw /\ size_ = <<2>> /\ last.from # <<>>

BridgeOps == {"loadHdt", "queryTriples", "countTriples", "wasm.sizeInBytes"}

\* C16: isLoaded() is true exactly when exports and memory are both present; while
\* it is false, loadHdt, queryTriples, countTriples and sizeInBytes fail with a
\* not-ready error without a guest call, and no facade is constructed.
C16_NotReadyUnlessLoaded ==
  /\ isLoaded <=> (exports # NoInstance /\ memory # NoInstance)
  /\ (exports = NoInstance \/ memory = NoInstance) =>
       /\ ~facade
       /\ last.op \in BridgeOps \cup {"new"} =>
            last.threw /\ last.err.kind = "NotReady" /\ last.trace = <<>>

\* A query on the bridge after a load() that failed
C16_Witness ==
  /\ \E i \in Loaders : loadPc[i] = "failed"
  /\ exports = NoInstance
  /\ last.op = "queryTriples" /\ last.threw /\ last.err.kind = "NotReady"

\* C17: match, has and iteration fail with UnknownTermShape when a decoded term has
\* a termType other than NamedNode, BlankNode, Literal: none of them returns a
\* result that holds, or was computed from, such a term.
C17_UnknownTermShapeSurfaced ==
  (/\ last.op \in {"match", "has", "iterate", "result.match", "result.has", "result.iterate"}
   /\ \E i \in 1..Len(last.from) : ~KnownTriple(last.from[i])) =>
    last.threw /\ last.err.kind = "UnknownTermShape"

\* The term given to structuredTermToRdfJs and the term it made
Converted == last.op = "structuredTermToRdfJs" /\ ~last.threw
TermIn == last.from[1]
TermOut == last.value[1]
HasPrefix(v) == Len(v) >= 2 /\ v[1] = 95 /\ v[2] = 58

\* C18: converting a BlankNode term removes exactly the prefix "_:" and nothing
\* else; an identifier delivered without the prefix is returned unchanged.
C18_BlankNodePrefix ==
  (last.op = "structuredTermToRdfJs" /\ TermIn.termType = "BlankNode") =>
    /\ Converted
    /\ TermOut.termType = "BlankNode"
    /\ TermOut.value = IF HasPrefix(TermIn.value)
                       THEN SubSeq(TermIn.value, 3, Len(TermIn.value))
                       ELSE TermIn.value

\* C19: a Literal term converts to a literal of the same value; with a language it
\* has that language and rdf:langString, not the term's datatype; with a datatype
\* and no language it has that datatype and no language; with neither it is an
\* xsd:string without language.
C19_LiteralConversion ==
  (last.op = "structuredTermToRdfJs" /\ TermIn.termType = "Literal") =>
    /\ Converted
    /\ TermOut.termType = "Literal"
    /\ TermOut.value = TermIn.value
    /\ TermOut.language = TermIn.language
    /\ TermOut.datatype = IF TermIn.language # <<>> THEN LangString
                           ELSE IF TermIn.datatype # <<>> THEN TermIn.datatype
                           ELSE XsdString

\* A literal delivered with both a language and a datatype
C19_Witness ==
  /\ Converted /\ TermIn.termType = "Literal"
  /\ TermIn.language = LangEn /\ TermIn.datatype = XsdInteger
  /\ TermOut.language = LangEn /\ TermOut.datatype = LangString

\* The guest calls that can grow the linear memory
Growing(i) ==
  \/ last.trace[i].ev = "alloc"
  \/ /\ last.trace[i].ev = "call"
     /\ last.trace[i].fn \in {"hdt_load", "hdt_query_triples", "hdt_count_triples",
                              "hdt_get_last_error", "hdt_get_debug_log"}
Accesses == {j \in Events : last.trace[j].ev \in {"write", "read"}}

\* C21: each write into guest memory and each read out of it uses a view taken
\* after the most recent guest call that can grow the memory.
C21_NoStaleView ==
  \A j \in Accesses :
    /\ last.trace[j].view \in 1..(j - 1)
    /\ last.trace[last.trace[j].view].ev = "view"
    /\ \A k \in (last.trace[j].view + 1)..(j - 1) : ~Growing(k)

\* A match that wrote a filter and read the payload back
C21_Witness ==
  /\ last.op = "match" /\ ~last.threw /\ last.value # <<>>
  /\ \E j \in Accesses : last.trace[j].ev = "write"
  /\ \E j \in Accesses : last.trace[j].ev = "read"

\* The frees of the output buffer that a query call was given
OutputFrees(c) ==
  {j \in Events : /\ last.trace[j].ev = "free"
                  /\ last.trace[j].ptr = last.trace[c].args[7]
                  /\ last.trace[j].len = outputCapacity}
OutputReads(c) ==
  {j \in Events : last.trace[j].ev = "read" /\ last.trace[j].ptr = last.trace[c].args[7]}

\* C22: when hdt_query_triples has returned, the output buffer is freed exactly
\* once, with its capacity of 1048576 bytes, after the call; on success the bytes
\* [outputPtr, outputPtr + resultLen) are read before that free, and nothing of the
\* buffer is read after it.
C22_OutputReadThenFreed ==
  \A c \in CallsOf("hdt_query_triples") :
    last.err.kind # "RuntimeError" =>
      /\ Cardinality(OutputFrees(c)) = 1
      /\ \A f \in OutputFrees(c) :
           /\ f > c
           /\ \A r \in OutputReads(c) : r < f
           /\ last.trace[c].ret >= 0 =>
                \E r \in OutputReads(c) : r > c /\ last.trace[r].len = last.trace[c].ret

\* A query that ended with a negative status: its output buffer was freed once
C22_Witness ==
  /\ last.op = "match" /\ last.threw /\ last.err.kind = "QueryFailed"
  /\ \E c \in CallsOf("hdt_query_triples") : Cardinality(OutputFrees(c)) = 1

\* The operations of the facade other than the size read and close
NonSizeOps ==
  {"has", "match", "iterate", "countMatches", "queryRaw", "sizeInBytes", "add", "delete"}

\* C25: the cached size changes only through a size read (unset to the counted
\* value) and close (reset to unset); every other operation of the facade, ended
\* well or not, leaves it as it was, and a size read whose count call fails leaves
\* it unset.
C25_CacheChangesOnlyBySizeAndClose ==
  /\ last.op \in NonSizeOps => size_ = last.sizeBefore
  /\ last.op = "close" => size_ = NullSize
  /\ last.op = "size" =>
       IF last.sizeBefore # NullSize THEN size_ = last.sizeBefore
       ELSE IF last.threw THEN size_ = NullSize
       ELSE size_ = <<last.num>>

\* A size read whose count call trapped, on a facade without a cached size
C25_Witness ==
  /\ last.op = "size" /\ last.threw /\ CallsOf("hdt_count_triples") # {}
  /\ last.sizeBefore = NullSize /\ size_ = NullSize

\* C26: the cached size, when set, equals the number of triples of the session
\* active on the bridge, also after a loadHdt that replaced the session the size was
\* counted on.
C26_CacheAgreesWithSession ==
  (/\ size_ # NullSize
   /\ last.op = "loadHdt" /\ ~last.threw
   /\ last.hdtBefore \in DatasetIds /\ hdt \in DatasetIds) =>
    size_[1] = Len(Dataset(hdt))

C30_ConcurrentLoadsConsistent ==
  /\ isLoaded => memory = exports
  /\ \A i \in DOMAIN loadPc : loadPc[i] = "failed" => (exports # i /\ memory # i)

\* C24: counts and pointers pass to host numbers without loss: the number the host
\* returns for a 64-bit count, and the offset it uses for a 64-bit pointer, is
\* exactly the value the guest returned.
C24_WideValuesExact ==
  last.op \in {"Number(count)", "Number(ptr)"} => last.value = last.from

\* Some quad of those an iteration yielded equals (s, p, o) term by term
Yielded(quads, s, p, o) ==
  \E i \in 1..Len(quads) :
    /\ quads[i].subject = AsRdfTerm(s)
    /\ quads[i].predicate = AsRdfTerm(p)
    /\ quads[i].object = AsRdfTerm(o)

\* C27: has is true of every quad that iterating the same dataset yields, and
\* result.has is true of every quad that iterating the same match result yields.
C27_IteratedQuadsAreHad ==
  /\ (last.op = "has" /\ ~last.threw
        /\ Yielded(DatasetIterate(NoFault).value, last.s, last.p, last.o)) => last.num = 1
  /\ (last.op = "result.has"
        /\ Yielded(ResultIterate(last.from).value, last.s, last.p, last.o)) => last.num = 1

\* The triples of a result whose values equal the terms given
Constrained(triples, s, p, o) ==
  SelectSeq(triples, LAMBDA t : /\ (s.kind = "term" => t.subject.value = s.value)
                                /\ (p.kind = "term" => t.predicate.value = p.value)
                                /\ (o.kind = "term" => t.object.value = o.value))

\* C29: a match result is a snapshot on the host: match on it makes no guest call
\* and returns exactly its triples whose values equal the terms given, and the size
\* of a result is the number of quads its iteration yields.
C29_ResultIsHostSnapshot ==
  /\ last.op = "result.match" =>
        /\ last.trace = <<>> /\ ~last.threw
        /\ ~OtherGraph(last.graph) => last.value = Constrained(last.from, last.s, last.p, last.o)
  /\ (last.op \in {"match", "result.match"} /\ ~last.threw) =>
        /\ ~ResultIterate(last.value).threw
        /\ ResultIterate(last.value).num = last.num

\* C28: hdt_count_triples is handed the same pattern as hdt_query_triples: for each
\* of subject, predicate and object the same pointer-is-null flag, the same length
\* and the same bytes, whatever the arguments (null, undefined, empty string, text).
C28_SamePatternPresented ==
  last.op = "counted" => last.value[1] = last.value[2]

\* A pattern of an empty string, undefined and a two-byte text was queried and counted
C28_Witness ==
  /\ last.op = "counted" /\ ~last.threw
  /\ last.from = <<Str(<<>>), Undefined, Str(StrE)>>
  /\ last.value[2][1].null /\ last.value[2][2].null
  /\ ~last.value[2][3].null /\ last.value[2][3].bytes = encode(StrE)

====
